---- MODULE Spec2Model ----
(***************************************************************************)
(* Model of infra/terraform/lambda/lambda_function.py: the S3-triggered     *)
(* document pipeline (metadata fetch, text extraction, summarisation,       *)
(* DynamoDB write) and the batch loop of lambda_handler.                    *)
(*                                                                          *)
(* A Python str is a sequence of code points, a bytes object a sequence of  *)
(* byte values.  Every external call (head_object, get_object,              *)
(* invoke_model, put_item) takes its outcome as a parameter; the actions    *)
(* draw the outcomes nondeterministically.                                  *)
(***************************************************************************)
EXTENDS Integers, Sequences, FiniteSets, TLC

VARIABLES table, uuidCount, putCount, pc, event, idx, results, response, trace, args, ret

hvars == <<table, uuidCount, putCount, pc, event, idx, results, response, trace>>
uvars == <<args, ret>>
vars == <<table, uuidCount, putCount, pc, event, idx, results, response, trace, args, ret>>

-----------------------------------------------------------------------------
(* Values *)

\* Python None: distinct from every str (a str holds code points >= 0).
None == << -1 >>

\* len(b'...') of the longest object body the unit specifications enumerate.
MaxBytes == 3

\* Most whitespace characters put before / after a text.
MaxPad == 1

\* Most notifications in one batch.
MaxBatch == 2

\* Most uuid4() draws over all invocations.
MaxUuid == 2

\* len(text.strip()) < 50
MinSummaryChars == 50

\* "Text too short to summarize effectively."
TextTooShort == <<84,101,120,116,32,116,111,111,32,115,104,111,114,116,32,116,111,32,115,117,109,109,97,114,105,122,101,32,101,102,102,101,99,116,105,118,101,108,121,46>>

\* "Unable to extract text - empty response from Bedrock"
EmptyExtractResponse == <<85,110,97,98,108,101,32,116,111,32,101,120,116,114,97,99,116,32,116,101,120,116,32,45,32,101,109,112,116,121,32,114,101,115,112,111,110,115,101,32,102,114,111,109,32,66,101,100,114,111,99,107>>

\* "Unable to extract text from file: "
UnableFromFilePrefix == <<85,110,97,98,108,101,32,116,111,32,101,120,116,114,97,99,116,32,116,101,120,116,32,102,114,111,109,32,102,105,108,101,58,32>>

\* "Error extracting text: "
ErrorExtractingPrefix == <<69,114,114,111,114,32,101,120,116,114,97,99,116,105,110,103,32,116,101,120,116,58,32>>

\* "Unable to generate summary - empty response from model."
EmptySummaryResponse == <<85,110,97,98,108,101,32,116,111,32,103,101,110,101,114,97,116,101,32,115,117,109,109,97,114,121,32,45,32,101,109,112,116,121,32,114,101,115,112,111,110,115,101,32,102,114,111,109,32,109,111,100,101,108,46>>

\* "Error generating summary: "
ErrorSummaryPrefix == <<69,114,114,111,114,32,103,101,110,101,114,97,116,105,110,103,32,115,117,109,109,97,114,121,58,32>>

\* "unknown"
Unknown == <<117,110,107,110,111,119,110>>

\* What a call returns: a value, or the exception it raised (val is str(e)).
\* calls lists, in order, the functions entered and the service calls made.
Ok(v, calls) == [exc |-> FALSE, val |-> v, calls |-> calls]

Raise(m, calls) == [exc |-> TRUE, val |-> m, calls |-> calls]

-----------------------------------------------------------------------------
(* str and bytes operations of the Python runtime *)

\* str.lower() on one ASCII character.
LowerChar(c) == IF c \in 65..90 THEN c + 32 ELSE c

LowerStr(s) == [i \in 1..Len(s) |-> LowerChar(s[i])]

\* Characters str.strip() removes (str.isspace), code points up to U+3000.
IsSpace(c) ==
  \/ c >= 9 /\ c <= 13
  \/ c >= 28 /\ c <= 32
  \/ c = 133 \/ c = 160 \/ c = 5760
  \/ c >= 8192 /\ c <= 8202
  \/ c = 8232 \/ c = 8233 \/ c = 8239 \/ c = 8287 \/ c = 12288

\* The index of the first character from i on that is not whitespace.
RECURSIVE FirstKept(_, _)
FirstKept(s, i) == IF i > Len(s) \/ ~IsSpace(s[i]) THEN i ELSE FirstKept(s, i + 1)

\* The index of the last character up to i that is not whitespace.
RECURSIVE LastKept(_, _)
LastKept(s, i) == IF i < 1 \/ ~IsSpace(s[i]) THEN i ELSE LastKept(s, i - 1)

\* str.strip()
Strip(s) == SubSeq(s, FirstKept(s, 1), LastKept(s, Len(s)))

\* str.strip(chars) for a single character.
StripChar(s, ch) ==
  LET keep == {i \in 1..Len(s) : s[i] # ch}
  IN IF keep = {} THEN <<>>
     ELSE SubSeq(s, CHOOSE i \in keep : \A j \in keep : i <= j,
                    CHOOSE i \in keep : \A j \in keep : j <= i)

\* str.split(sep) for a single-character separator.
RECURSIVE Split(_, _)
Split(s, sep) ==
  LET at == {i \in 1..Len(s) : s[i] = sep}
  IN IF at = {} THEN <<s>>
     ELSE LET i == CHOOSE k \in at : \A j \in at : k <= j
          IN <<SubSeq(s, 1, i - 1)>> \o Split(SubSeq(s, i + 1, Len(s)), sep)

\* seq[-1]
Last(q) == q[Len(q)]

\* Number of continuation bytes a UTF-8 lead byte announces; -1: no lead byte.
Utf8Need(b) ==
  IF b < 128 THEN 0
  ELSE IF b \in 194..223 THEN 1
  ELSE IF b \in 224..239 THEN 2
  ELSE IF b \in 240..244 THEN 3
  ELSE -1

\* Whether the k-th byte after the lead byte at i continues a well-formed sequence.
ContOk(bytes, i, k) ==
  /\ i + k <= Len(bytes)
  /\ LET b == bytes[i]
         c == bytes[i + k]
         lo == IF k = 1 /\ b = 224 THEN 160 ELSE IF k = 1 /\ b = 240 THEN 144 ELSE 128
         hi == IF k = 1 /\ b = 237 THEN 159 ELSE IF k = 1 /\ b = 244 THEN 143 ELSE 191
     IN c \in lo..hi

\* How many of the announced continuation bytes are there and well-formed.
GoodCont(bytes, i) ==
  LET need == Utf8Need(bytes[i])
      good == {k \in 0..need : \A j \in 1..k : ContOk(bytes, i, j)}
  IN CHOOSE k \in good : \A j \in good : j <= k

\* The code point of the well-formed sequence that starts at i.
CodePoint(bytes, i) ==
  LET b == bytes[i]
      need == Utf8Need(b)
      c(k) == bytes[i + k] - 128
  IN IF need = 0 THEN b
     ELSE IF need = 1 THEN (b - 192) * 64 + c(1)
     ELSE IF need = 2 THEN (b - 224) * 4096 + c(1) * 64 + c(2)
     ELSE (b - 240) * 262144 + c(1) * 4096 + c(2) * 64 + c(3)

\* bytes.decode('utf-8', errors=mode) from index i: ok is FALSE where the
\* strict decoder raises UnicodeDecodeError; "ignore" drops, and "replace"
\* replaces by U+FFFD, each maximal ill-formed subsequence.
RECURSIVE Utf8From(_, _, _)
Utf8From(bytes, i, mode) ==
  IF i > Len(bytes) THEN [ok |-> TRUE, text |-> <<>>]
  ELSE LET need == Utf8Need(bytes[i])
           good == IF need < 0 THEN 0 ELSE GoodCont(bytes, i)
       IN IF need >= 0 /\ good = need
          THEN LET rest == Utf8From(bytes, i + need + 1, mode)
               IN [ok |-> rest.ok, text |-> <<CodePoint(bytes, i)>> \o rest.text]
          ELSE IF mode = "strict" THEN [ok |-> FALSE, text |-> <<>>]
          ELSE LET rest == Utf8From(bytes, i + 1 + good, mode)
               IN [ok |-> rest.ok,
                   text |-> (IF mode = "replace" THEN <<65533>> ELSE <<>>) \o rest.text]

DecodeUtf8(bytes, mode) == Utf8From(bytes, 1, mode)

\* bytes.decode('latin-1'): every byte is its own code point; never raises.
DecodeLatin1(bytes) == [ok |-> TRUE, text |-> bytes]

\* The value of a hexadecimal digit, -1 for any other character.
HexVal(c) ==
  IF c \in 48..57 THEN c - 48
  ELSE IF c \in 65..70 THEN c - 55
  ELSE IF c \in 97..102 THEN c - 87
  ELSE -1

\* urllib.parse.unquote_to_bytes on an ASCII str: %XX becomes one byte, a
\* '%' not followed by two hex digits stays.
RECURSIVE UnquoteToBytes(_)
UnquoteToBytes(s) ==
  IF s = <<>> THEN <<>>
  ELSE IF s[1] = 37 /\ Len(s) >= 3 /\ HexVal(s[2]) >= 0 /\ HexVal(s[3]) >= 0
       THEN <<HexVal(s[2]) * 16 + HexVal(s[3])>> \o UnquoteToBytes(SubSeq(s, 4, Len(s)))
       ELSE <<s[1]>> \o UnquoteToBytes(Tail(s))

\* urllib.parse.unquote_plus: '+' becomes ' ', then the escapes are decoded
\* as UTF-8 with errors='replace'.
unquote_plus(s) ==
  DecodeUtf8(UnquoteToBytes([i \in 1..Len(s) |-> IF s[i] = 43 THEN 32 ELSE s[i]]), "replace").text

\* posixpath.splitext(p)[1], as mimetypes.guess_type takes the extension.
SplitExt(p) ==
  LET seps == {i \in 1..Len(p) : p[i] = 47}
      dots == {i \in 1..Len(p) : p[i] = 46}
      sepIndex == IF seps = {} THEN 0 ELSE CHOOSE i \in seps : \A j \in seps : j <= i
      dotIndex == IF dots = {} THEN 0 ELSE CHOOSE i \in dots : \A j \in dots : j <= i
  IN IF dotIndex > sepIndex /\ \E j \in (sepIndex + 1)..(dotIndex - 1) : p[j] # 46
     THEN SubSeq(p, dotIndex, Len(p))
     ELSE <<>>

\* mimetypes.guess_type(key)[0] on the extensions the model's keys carry:
\* the type of the (lower-cased) extension, None when the table has none.
GuessType(key) ==
  LET ext == LowerStr(SplitExt(key))
  IN CASE ext = <<46,116,120,116>> -> <<116,101,120,116,47,112,108,97,105,110>>
       [] ext = <<46,112,100,102>> -> <<97,112,112,108,105,99,97,116,105,111,110,47,112,100,102>>
       [] ext = <<46,112,110,103>> -> <<105,109,97,103,101,47,112,110,103>>
       [] ext \in {<<46,106,112,103>>, <<46,106,112,101,103>>} -> <<105,109,97,103,101,47,106,112,101,103>>
       [] ext = <<46,103,105,102>> -> <<105,109,97,103,101,47,103,105,102>>
       [] ext = <<46,98,109,112>> -> <<105,109,97,103,101,47,98,109,112>>
       [] ext = <<46,116,105,102,102>> -> <<105,109,97,103,101,47,116,105,102,102>>
       [] OTHER -> None

\* dict.get(k, default): a dict is a function whose DOMAIN is its keys.
DictGet(d, k, default) == IF k \in DOMAIN d THEN d[k] ELSE default

-----------------------------------------------------------------------------
(* The pipeline.  The request bodies sent to the services and the time      *)
(* stamps (last_modified, upload_timestamp, processed_at) are written and   *)
(* never read back by the program; they are left out.                       *)

\* The str(e) of the exceptions the response parsing raises (only logged).
\* "'text'"
KeyErrorText == <<39,116,101,120,116,39>>

\* "no strip"
AttributeErrorStrip == <<110,111,32,115,116,114,105,112>>

\* "bad json"
JSONDecodeErrorMsg == <<98,97,100,32,106,115,111,110>>

\* "'s3'"
KeyErrorS3 == <<39,115,51,39>>

\* "'Records'"
KeyErrorRecords == <<39,82,101,99,111,114,100,115,39>>

\* The nested decode attempts of extract_text_directly on the object's bytes.
DirectDecode(content) ==
  LET u == DecodeUtf8(content, "strict")
  IN IF u.ok THEN u.text
     ELSE LET l == DecodeLatin1(content)
          IN IF l.ok THEN l.text
             ELSE DecodeUtf8(content, "ignore").text

\* get: the outcome of s3_client.get_object, [ok |-> TRUE, body |-> bytes] or
\* [ok |-> FALSE, msg |-> str(e)].
extract_text_directly(get) ==
  LET calls == <<"extract_text_directly", "get_object">>
  IN IF get.ok THEN Ok(DirectDecode(get.body), calls)
     ELSE Ok(UnableFromFilePrefix \o get.msg, calls)

\* A parse that indexes the content without looking at it first.
ExtractionResponseTextUnchecked(inv) ==
  IF ~inv.parses THEN Raise(JSONDecodeErrorMsg, <<>>)
  ELSE IF "content" \notin DOMAIN inv.body \/ inv.body.content = <<>>
  THEN Raise(KeyErrorText, <<>>)
  ELSE IF "text" \notin DOMAIN inv.body.content[1] THEN Raise(KeyErrorText, <<>>)
  ELSE IF inv.body.content[1].text = None THEN Raise(AttributeErrorStrip, <<>>)
  ELSE Ok(Strip(inv.body.content[1].text), <<>>)

\* The parse of the extraction response: inv is the outcome of invoke_model,
\* [raises |-> FALSE, parses |-> whether json.loads accepts the body,
\*  body |-> the parsed dict].
ExtractionResponseText(inv) ==
  IF ~inv.parses THEN Raise(JSONDecodeErrorMsg, <<>>)
  ELSE IF "content" \in DOMAIN inv.body /\ inv.body.content # <<>>
  THEN LET first == inv.body.content[1]
       IN IF "text" \notin DOMAIN first THEN Raise(KeyErrorText, <<>>)
          ELSE IF first.text = None THEN Raise(AttributeErrorStrip, <<>>)
          ELSE Ok(Strip(first.text), <<>>)
  ELSE Ok(EmptyExtractResponse, <<>>)

\* An except branch that answers with the placeholder instead of reading
\* the object directly.
VisionFallbackPlaceholder(get2, calls) == Ok(EmptyExtractResponse, calls)

\* The except branch of extract_text_with_bedrock_data_automation.
VisionFallback(get2, calls) ==
  LET d == extract_text_directly(get2)
  IN [d EXCEPT !.calls = calls \o d.calls]

\* get1: the outcome of its own get_object; inv: of invoke_model, which may be
\* [raises |-> TRUE, msg |-> str(e)]; get2: of the get_object of the fallback.
extract_text_with_bedrock_data_automation(key, get1, inv, get2) ==
  LET c0 == <<"extract_text_with_bedrock_data_automation", "get_object">>
      c1 == c0 \o <<"invoke_model">>
  IN IF ~get1.ok THEN VisionFallback(get2, c0)
     ELSE IF inv.raises THEN VisionFallback(get2, c1)
     ELSE LET t == ExtractionResponseText(inv)
          IN IF t.exc THEN VisionFallback(get2, c1) ELSE Ok(t.val, c1)

\* key.lower().split('.')[-1]
FileExtension(key) == Last(Split(LowerStr(key), 46))

\* ['pdf', 'png', 'jpg', 'jpeg', 'tiff', 'gif', 'bmp']
VisionExtensions ==
  { <<112,100,102>>, <<112,110,103>>, <<106,112,103>>, <<106,112,101,103>>,
    <<116,105,102,102>>, <<103,105,102>>, <<98,109,112>> }

extract_text_from_document(key, get1, inv, get2) ==
  LET r == IF FileExtension(key) \in VisionExtensions
           THEN extract_text_with_bedrock_data_automation(key, get1, inv, get2)
           ELSE extract_text_directly(get1)
      calls == <<"extract_text_from_document">> \o r.calls
  IN IF r.exc THEN Ok(ErrorExtractingPrefix \o r.val, calls)
     ELSE Ok(r.val, calls)

\* The parse of the summarisation response.
SummaryResponseText(inv) ==
  IF ~inv.parses THEN Raise(JSONDecodeErrorMsg, <<>>)
  ELSE IF "content" \in DOMAIN inv.body /\ inv.body.content # <<>>
  THEN LET first == inv.body.content[1]
       IN IF "text" \notin DOMAIN first THEN Raise(KeyErrorText, <<>>)
          ELSE IF first.text = None THEN Raise(AttributeErrorStrip, <<>>)
          ELSE Ok(Strip(first.text), <<>>)
  ELSE Ok(EmptySummaryResponse, <<>>)

\* The length test without the strip.
TooShortUntrimmed(text) == text = <<>> \/ Len(text) < MinSummaryChars

\* not text or len(text.strip()) < 50
TooShort(text) == text = <<>> \/ Len(Strip(text)) < MinSummaryChars

generate_summary_with_bedrock(text, inv) ==
  LET c0 == <<"generate_summary_with_bedrock">>
      c1 == c0 \o <<"invoke_model">>
  IN IF TooShort(text) THEN Ok(TextTooShort, c0)
     ELSE IF inv.raises THEN Ok(ErrorSummaryPrefix \o inv.msg, c1)
     ELSE LET t == SummaryResponseText(inv)
          IN IF t.exc THEN Ok(ErrorSummaryPrefix \o t.val, c1) ELSE Ok(t.val, c1)

\* The content type of the happy path: response.get('ContentType', ''), and
\* the guess when that is empty.
ContentType(key, resp) ==
  LET reported == DictGet(resp, "ContentType", <<>>)
  IN IF reported = <<>> THEN GuessType(key) ELSE reported

\* A metadata fetch whose except branch raises again.
get_document_metadata_reraises(key, head) ==
  IF head.ok
  THEN Ok([content_type |-> ContentType(key, head.resp),
           content_length |-> DictGet(head.resp, "ContentLength", 0),
           etag |-> StripChar(DictGet(head.resp, "ETag", <<>>), 34),
           metadata |-> DictGet(head.resp, "Metadata", <<>>)],
          <<"get_document_metadata", "head_object">>)
  ELSE Raise(head.msg, <<"get_document_metadata", "head_object">>)

\* head: the outcome of s3_client.head_object, [ok |-> TRUE, resp |-> dict] or
\* [ok |-> FALSE, msg |-> str(e)].
get_document_metadata(key, head) ==
  LET calls == <<"get_document_metadata", "head_object">>
  IN IF head.ok
     THEN Ok([content_type |-> ContentType(key, head.resp),
              content_length |-> DictGet(head.resp, "ContentLength", 0),
              etag |-> StripChar(DictGet(head.resp, "ETag", <<>>), 34),
              metadata |-> DictGet(head.resp, "Metadata", <<>>)], calls)
     ELSE Ok([content_type |-> Unknown, content_length |-> 0,
              etag |-> <<>>, metadata |-> <<>>], calls)

\* table.put_item(Item=item): the item replaces any item with its document_id.
PutItem(tbl, item) ==
  [id \in DOMAIN tbl \cup {item.document_id} |->
     IF id = item.document_id THEN item ELSE tbl[id]]

\* put: the outcome of table.put_item, [ok |-> TRUE] or
\* [ok |-> FALSE, msg |-> str(e)].  The result carries the item handed to
\* put_item and the table afterwards.
store_document_data(document_id, bucket, key, metadata, raw_text, summary, put, tbl) ==
  LET item == [document_id |-> document_id, bucket |-> bucket, object_key |-> key,
               metadata |-> metadata, raw_text |-> raw_text, summary |-> summary,
               text_length |-> Len(raw_text), summary_length |-> Len(summary)]
      calls == <<"store_document_data", "put_item">>
  IN IF put.ok
     THEN [exc |-> FALSE, val |-> <<>>, calls |-> calls, item |-> item,
           table |-> PutItem(tbl, item)]
     ELSE [exc |-> TRUE, val |-> put.msg, calls |-> calls, item |-> item, table |-> tbl]

\* record['s3']['bucket']['name']
BucketName(record) ==
  IF "s3" \in DOMAIN record /\ "bucket" \in DOMAIN record.s3
     /\ "name" \in DOMAIN record.s3.bucket
  THEN Ok(record.s3.bucket.name, <<>>)
  ELSE Raise(KeyErrorS3, <<>>)

\* unquote_plus(record['s3']['object']['key'])
ObjectKey(record) ==
  IF "s3" \in DOMAIN record /\ "object" \in DOMAIN record.s3
     /\ "key" \in DOMAIN record.s3.object
  THEN Ok(unquote_plus(record.s3.object.key), <<>>)
  ELSE Raise(KeyErrorS3, <<>>)

\* An id drawn once for the whole process.
Uuid4Once(n) == 1

\* str(uuid.uuid4()) for the n-th draw of the process: a value no earlier
\* draw returned.
Uuid4(n) == n

\* The dict the except branch of process_s3_record returns, from the fields
\* it read again; reading them may raise again, out of process_s3_record.
\* attempt is the item handed to put_item, <<>> when none was.
ErrorDict(b, k, msg, calls, tbl, drawn, attempt) ==
  IF b.exc THEN [exc |-> TRUE, val |-> b.val, calls |-> calls, table |-> tbl,
                 drawn |-> drawn, attempt |-> attempt]
  ELSE IF k.exc THEN [exc |-> TRUE, val |-> k.val, calls |-> calls, table |-> tbl,
                      drawn |-> drawn, attempt |-> attempt]
  ELSE [exc |-> FALSE,
        val |-> [bucket |-> b.val, key |-> k.val, status |-> "error", error |-> msg],
        calls |-> calls, table |-> tbl, drawn |-> drawn, attempt |-> attempt]

\* The except branch of process_s3_record; msg is str(e).
ErrorResult(record, msg, calls, tbl, drawn, attempt) ==
  ErrorDict(BucketName(record), ObjectKey(record), msg, calls, tbl, drawn, attempt)

\* The return after store_document_data; w is what store_document_data did.
Stored(record, document_id, bucket, key, text, summary, calls, w) ==
  IF w.exc THEN ErrorResult(record, w.val, calls \o w.calls, w.table, 1, w.item)
  ELSE [exc |-> FALSE,
        val |-> [document_id |-> document_id, bucket |-> bucket, key |-> key,
                 status |-> "processed", text_length |-> Len(text),
                 summary_length |-> Len(summary)],
        calls |-> calls \o w.calls, table |-> w.table, drawn |-> 1, attempt |-> w.item]

\* From the summary s on: the call of store_document_data.
Summarized(record, document_id, bucket, key, metadata, text, calls, s, env, tbl) ==
  IF s.exc THEN ErrorResult(record, s.val, calls \o s.calls, tbl, 1, <<>>)
  ELSE Stored(record, document_id, bucket, key, text, s.val, calls \o s.calls,
              store_document_data(document_id, bucket, key, metadata, text, s.val,
                                  env.put, tbl))

\* From the extracted text x on: the call of generate_summary_with_bedrock.
Extracted(record, document_id, bucket, key, metadata, calls, x, env, tbl) ==
  IF x.exc THEN ErrorResult(record, x.val, calls \o x.calls, tbl, 1, <<>>)
  ELSE Summarized(record, document_id, bucket, key, metadata, x.val, calls \o x.calls,
                  generate_summary_with_bedrock(x.val, env.sinv), env, tbl)

\* From the metadata m on: the call of extract_text_from_document.
Fetched(record, document_id, bucket, key, m, env, tbl) ==
  IF m.exc THEN ErrorResult(record, m.val, m.calls, tbl, 1, <<>>)
  ELSE Extracted(record, document_id, bucket, key, m.val, m.calls,
                 extract_text_from_document(key, env.get1, env.inv, env.get2), env, tbl)

\* The try block from the two fields b and k it reads first: a field that
\* is missing raises, otherwise the id is drawn and the metadata fetched.
FieldsRead(record, b, k, env, n, tbl) ==
  IF b.exc THEN ErrorResult(record, b.val, <<>>, tbl, 0, <<>>)
  ELSE IF k.exc THEN ErrorResult(record, k.val, <<>>, tbl, 0, <<>>)
  ELSE Fetched(record, Uuid4(n + 1), b.val, k.val,
               get_document_metadata(k.val, env.head), env, tbl)

\* env: the outcomes of the service calls, [head, get1, inv, get2, sinv, put];
\* n: the uuid4 draws made so far; tbl: the table.  The result carries the
\* table afterwards, drawn (the number of draws it made) and attempt.
process_s3_record(record, env, n, tbl) ==
  FieldsRead(record, BucketName(record), ObjectKey(record), env, n, tbl)

-----------------------------------------------------------------------------
(* Inputs: events, objects and service outcomes *)

\* "An error occurred (404)"
MsgGet == <<65,110,32,101,114,114,111,114,32,111,99,99,117,114,114,101,100,32,40,52,48,52,41>>

\* "An error occurred (403)"
MsgHead == <<65,110,32,101,114,114,111,114,32,111,99,99,117,114,114,101,100,32,40,52,48,51,41>>

\* "Read timed out"
MsgInvoke == <<82,101,97,100,32,116,105,109,101,100,32,111,117,116>>

\* "Throttled"
MsgPut == <<84,104,114,111,116,116,108,101,100>>

GetOk(body) == [ok |-> TRUE, body |-> body]

GetFails == [ok |-> FALSE, msg |-> MsgGet]

InvokeRaises == [raises |-> TRUE, msg |-> MsgInvoke]

\* invoke_model returned and json.loads accepted the body.
InvokeBody(body) == [raises |-> FALSE, parses |-> TRUE, body |-> body]

\* invoke_model returned a body json.loads rejects.
InvokeNotJson == [raises |-> FALSE, parses |-> FALSE]

\* {"content": [{"type": "text", "text": t}]}
TextBody(t) == InvokeBody([content |-> <<[type |-> "text", text |-> t]>>])

\* A text of n characters, words of six letters, inside l leading and r
\* trailing whitespace characters.
Padded(l, n, r) ==
  [i \in 1..l |-> 10] \o [i \in 1..n |-> IF i % 7 = 0 /\ i < n THEN 32 ELSE 120]
    \o [i \in 1..r |-> 32]

\* The responses of the model the unit specifications enumerate.
\* " Hello\n"
InvokeOutcomes ==
  { InvokeRaises, InvokeNotJson,
    InvokeBody([id |-> "msg"]),
    InvokeBody([content |-> <<>>]),
    InvokeBody([content |-> <<[type |-> "tool_use"]>>]),
    TextBody(None),
    TextBody(<<32,72,101,108,108,111,10>>),
    TextBody(Padded(1, MinSummaryChars, 1)) }

\* Object keys of the unit specifications: "notes.txt", "a.pdf", "A.PDF",
\* "pdf", "PNG", "a.b.jpg", "x.jpeg", "t.tiff", "g.gif", "b.bmp", "i.png",
\* "README", "a.pdfx", "pdf.", ".pdf", "a.pdf/b".
UnitKeys ==
  { <<110,111,116,101,115,46,116,120,116>>, <<97,46,112,100,102>>, <<65,46,80,68,70>>,
    <<112,100,102>>, <<80,78,71>>, <<97,46,98,46,106,112,103>>, <<120,46,106,112,101,103>>,
    <<116,46,116,105,102,102>>, <<103,46,103,105,102>>, <<98,46,98,109,112>>,
    <<105,46,112,110,103>>, <<82,69,65,68,77,69>>, <<97,46,112,100,102,120>>,
    <<112,100,102,46>>, <<46,112,100,102>>, <<97,46,112,100,102,47,98>> }

\* Bytes of the enumerated object bodies: 'A', the two bytes of U+00E9 in
\* UTF-8, and a byte no UTF-8 text holds.
ByteAlphabet == {65, 195, 169, 255}

Bodies == UNION {[1..n -> ByteAlphabet] : n \in 0..MaxBytes}

\* head_object responses: a dict of the fields S3 reported.
\* "application/pdf", "\"abc\""
HeadResponses ==
  { ct @@ cl @@ et @@ md :
      ct \in {<<>>, "ContentType" :> <<>>,
              "ContentType" :> <<97,112,112,108,105,99,97,116,105,111,110,47,112,100,102>>},
      cl \in {<<>>} \cup {"ContentLength" :> n : n \in 0..MaxBytes},
      et \in {<<>>, "ETag" :> <<34,97,98,99,34>>},
      md \in {<<>>, "Metadata" :> [author |-> "a"]} }

HeadOutcomes == {[ok |-> FALSE, msg |-> MsgHead]} \cup {[ok |-> TRUE, resp |-> r] : r \in HeadResponses}

S3Record(bucket, rawKey) ==
  [eventSource |-> "aws:s3",
   s3 |-> [bucket |-> [name |-> bucket], object |-> [key |-> rawKey]]]

\* The notifications of the handler's batches: uploads of "n.txt" and of
\* "d%2Epdf" (the URL-encoded key of "d.pdf"), an upload notification without
\* its s3 field, and a notification of another event source.
Notifications ==
  { S3Record("docs", <<110,46,116,120,116>>),
    S3Record("docs", <<100,37,50,69,112,100,102>>),
    [eventSource |-> "aws:s3"],
    [eventSource |-> "aws:sqs", body |-> "m"] }

Batches == UNION {[1..n -> Notifications] : n \in 0..MaxBatch}

\* The events lambda_handler is invoked with; one has no 'Records'.
Events == {[Records |-> b] : b \in Batches} \cup {[detail |-> "ping"]}

\* The bucket of the handler specification: "n.txt" holds b"Hi", every
\* other key b"%PDF".
ObjectBody(k) == IF ~k.exc /\ k.val = <<110,46,116,120,116>> THEN <<72,105>> ELSE <<37,80,68,70>>

\* head_object responses without a content type: S3 reported the length and
\* the ETag "\"abc\"".
HeadNoContentType == [ok |-> TRUE, resp |-> ("ContentLength" :> 4) @@ ("ETag" :> <<34,97,98,99,34>>)]

HeadFails == [ok |-> FALSE, msg |-> MsgHead]

PutOutcomes == {[ok |-> TRUE], [ok |-> FALSE, msg |-> MsgPut]}

\* The service outcomes one notification of the handler specification meets;
\* k is the key it names, or the exception reading it raises.  head_object,
\* the first get_object, both invoke_model calls and put_item succeed or
\* fail; the model answers with a text of 50 characters and the summary "ok".
HandlerEnvs(k) ==
  [head : {HeadFails, HeadNoContentType},
   get1 : {GetFails, GetOk(ObjectBody(k))},
   inv : {InvokeRaises, TextBody(Padded(1, MinSummaryChars, 1))},
   get2 : {GetOk(ObjectBody(k))},
   sinv : {InvokeRaises, TextBody(<<111,107>>)},
   put : PutOutcomes]

\* The service outcomes process_s3_record meets when called on its own.
RecordEnvs(k) ==
  [head : {HeadFails, HeadNoContentType,
           [ok |-> TRUE, resp |-> "ContentType" :> <<116,101,120,116,47,112,108,97,105,110>>]},
   get1 : {GetFails, GetOk(ObjectBody(k))},
   inv : InvokeOutcomes,
   get2 : {GetFails, GetOk(ObjectBody(k))},
   sinv : InvokeOutcomes,
   put : PutOutcomes]

-----------------------------------------------------------------------------
(* lambda_handler: one invocation after another on a warm process *)

UploadTag == "aws:s3"

InitHandler ==
  /\ table = <<>>
  /\ uuidCount = 0
  /\ putCount = 0
  /\ event = <<>>
  /\ idx = 0
  /\ results = <<>>
  /\ response = <<>>
  /\ trace = <<>>

Init ==
  /\ InitHandler
  /\ pc = "idle"
  /\ args = <<>>
  /\ ret = <<>>

\* Number of upload notifications of a batch.
Uploads(batch) == Cardinality({i \in 1..Len(batch) : batch[i].eventSource = UploadTag})

\* The except branch of lambda_handler.
Response500(msg) == [statusCode |-> 500, body |-> [error |-> msg]]

Response200(res) ==
  [statusCode |-> 200,
   body |-> [message |-> "Documents processed successfully", results |-> res]]

\* lambda_handler is called: results = [] and the loop starts, or
\* event['Records'] raises KeyError.
Invoke ==
  /\ pc = "idle"
  /\ \E ev \in Events :
       /\ "Records" \in DOMAIN ev => uuidCount + Uploads(ev.Records) <= MaxUuid
       /\ event' = ev
       /\ IF "Records" \in DOMAIN ev
          THEN pc' = "loop" /\ idx' = 1 /\ response' = <<>>
          ELSE pc' = "done" /\ idx' = 0 /\ response' = Response500(KeyErrorRecords)
  /\ results' = <<>>
  /\ trace' = <<>>
  /\ UNCHANGED <<table, uuidCount, putCount, args, ret>>

\* A record whose eventSource is not 'aws:s3' is passed over.
SkipRecord ==
  /\ pc = "loop"
  /\ idx <= Len(event.Records)
  /\ event.Records[idx].eventSource # UploadTag
  /\ idx' = idx + 1
  /\ UNCHANGED <<table, uuidCount, putCount, pc, event, results, response, trace, args, ret>>

\* The loop body for an upload record: process_s3_record and
\* results.append; an exception of process_s3_record leaves the loop for the
\* except branch of lambda_handler.
ProcessRecord ==
  /\ pc = "loop"
  /\ idx <= Len(event.Records)
  /\ event.Records[idx].eventSource = UploadTag
  /\ \E env \in HandlerEnvs(ObjectKey(event.Records[idx])) :
       \E r \in {process_s3_record(event.Records[idx], env, uuidCount, table)} :
         \E putOk \in {r.attempt # <<>> /\ env.put.ok} :
          /\ table' = r.table
          /\ uuidCount' = uuidCount + r.drawn
          /\ putCount' = putCount + (IF putOk THEN 1 ELSE 0)
          /\ trace' = Append(trace, [idx |-> idx, raised |-> r.exc,
                                     attempt |-> r.attempt, putOk |-> putOk])
          /\ IF r.exc
             THEN /\ pc' = "done"
                  /\ response' = Response500(r.val)
                  /\ UNCHANGED <<idx, results>>
             ELSE /\ results' = Append(results, r.val)
                  /\ idx' = idx + 1
                  /\ UNCHANGED <<pc, response>>
  /\ UNCHANGED <<event, args, ret>>

\* The loop is over: the 200 response with the results.
Return ==
  /\ pc = "loop"
  /\ idx > Len(event.Records)
  /\ pc' = "done"
  /\ response' = Response200(results)
  /\ UNCHANGED <<table, uuidCount, putCount, event, idx, results, trace, args, ret>>

\* The process waits for its next event; the table keeps its items.
Finish ==
  /\ pc = "done"
  /\ pc' = "idle"
  /\ event' = <<>>
  /\ idx' = 0
  /\ results' = <<>>
  /\ response' = <<>>
  /\ trace' = <<>>
  /\ UNCHANGED <<table, uuidCount, putCount, args, ret>>

Next == Invoke \/ SkipRecord \/ ProcessRecord \/ Return \/ Finish

Spec == Init /\ [][Next]_vars

-----------------------------------------------------------------------------
(* The functions of the pipeline called on their own *)

\* process_s3_record on one notification, an empty table and service outcomes.
InitRecord ==
  /\ InitHandler
  /\ pc = "input"
  /\ \E record \in Notifications :
       /\ record.eventSource = UploadTag
       /\ args \in [record : {record}, env : RecordEnvs(ObjectKey(record))]
  /\ ret = <<>>

CallRecord ==
  /\ pc = "input"
  /\ pc' = "returned"
  /\ ret' = process_s3_record(args.record, args.env, 0, <<>>)
  /\ UNCHANGED <<table, uuidCount, putCount, event, idx, results, response, trace, args>>

NextRecord == CallRecord

SpecRecord == InitRecord /\ [][NextRecord]_vars

\* extract_text_from_document on a key, an object body and service outcomes.
InitExtract ==
  /\ InitHandler
  /\ pc = "input"
  /\ args \in [key : UnitKeys, body : Bodies, get1Fails : BOOLEAN, get2Fails : BOOLEAN,
               inv : InvokeOutcomes]
  /\ ret = <<>>

CallExtract ==
  /\ pc = "input"
  /\ pc' = "returned"
  /\ ret' = extract_text_from_document(args.key,
               IF args.get1Fails THEN GetFails ELSE GetOk(args.body),
               args.inv,
               IF args.get2Fails THEN GetFails ELSE GetOk(args.body))
  /\ UNCHANGED <<table, uuidCount, putCount, event, idx, results, response, trace, args>>

NextExtract == CallExtract

SpecExtract == InitExtract /\ [][NextExtract]_vars

\* generate_summary_with_bedrock on a text and the model's outcome.
MaxText == 52

\* The texts: a core of n characters that starts and ends with a letter,
\* padded with whitespace, and whitespace alone.
SummaryInputs ==
  {[core |-> n, text |-> Padded(l, n, r)] : l \in 0..MaxPad, n \in 0..MaxText, r \in 0..MaxPad}
    \cup {[core |-> 0, text |-> Padded(l, 0, 0)] : l \in 0..MaxText}

InitSummary ==
  /\ InitHandler
  /\ pc = "input"
  /\ args \in [in : SummaryInputs, inv : InvokeOutcomes]
  /\ ret = <<>>

CallSummary ==
  /\ pc = "input"
  /\ pc' = "returned"
  /\ ret' = generate_summary_with_bedrock(args.in.text, args.inv)
  /\ UNCHANGED <<table, uuidCount, putCount, event, idx, results, response, trace, args>>

NextSummary == CallSummary

SpecSummary == InitSummary /\ [][NextSummary]_vars

\* get_document_metadata on a key and the outcome of head_object.
InitMetadata ==
  /\ InitHandler
  /\ pc = "input"
  /\ args \in [key : UnitKeys, head : HeadOutcomes]
  /\ ret = <<>>

CallMetadata ==
  /\ pc = "input"
  /\ pc' = "returned"
  /\ ret' = get_document_metadata(args.key, args.head)
  /\ UNCHANGED <<table, uuidCount, putCount, event, idx, results, response, trace, args>>

NextMetadata == CallMetadata

SpecMetadata == InitMetadata /\ [][NextMetadata]_vars

-----------------------------------------------------------------------------
(* Properties *)

HasRecords == "Records" \in DOMAIN event

\* The indexes of the upload notifications of a batch, in batch order.
UploadIdx(batch) ==
  SelectSeq([i \in 1..Len(batch) |-> i], LAMBDA i : batch[i].eventSource = UploadTag)

\* A notification that carries its bucket name and its object key.
WellFormed(record) == ~BucketName(record).exc /\ ~ObjectKey(record).exc

\* A str: a sequence of code points (None is not).
IsStr(s) == \A i \in 1..Len(s) : s[i] >= 0

\* How often a function or service call occurs in a list of calls.
Count(calls, name) == Cardinality({i \in 1..Len(calls) : calls[i] = name})

\* put_item was called for the notification and raised.
WriteFailed(t) == t.attempt # <<>> /\ ~t.putOk

\* The results of the response; a 500 response carries none.
Reported == IF response.statusCode = 200 THEN response.body.results ELSE <<>>

\* The ids of the items put_item stored during this invocation.
Written == {trace[j].attempt.document_id : j \in {i \in 1..Len(trace) : trace[i].putOk}}

\* The extraction ran through the vision extractor and its invoke_model call.
VisionCalled ==
  /\ pc = "returned"
  /\ FileExtension(args.key) \in VisionExtensions
  /\ ~args.get1Fails

\* What extract_text_directly returns on the object of the call.
DirectText ==
  extract_text_directly(IF args.get2Fails THEN GetFails ELSE GetOk(args.body)).val

\* C1: when lambda_handler has returned for a batch, the response is a 200
\* whose results hold exactly one entry, processed or error, for each upload
\* notification, in batch order, and none for the others: no notification,
\* malformed ones included, aborts the batch.
C1_OneResultPerUpload ==
  pc = "done" /\ HasRecords =>
    /\ response.statusCode = 200
    /\ Len(response.body.results) = Len(UploadIdx(event.Records))
    /\ \A j \in 1..Len(response.body.results) :
         /\ response.body.results[j].status \in {"processed", "error"}
         /\ WellFormed(event.Records[UploadIdx(event.Records)[j]]) =>
              /\ response.body.results[j].bucket
                   = BucketName(event.Records[UploadIdx(event.Records)[j]]).val
              /\ response.body.results[j].key
                   = ObjectKey(event.Records[UploadIdx(event.Records)[j]]).val

\* C2: when put_item failed for a notification of the batch, the response is
\* a 200 in which that notification's result has status error and the
\* exception's message, and every notification whose write succeeded has
\* status processed.
C2_WriteFailureIsReported ==
  pc = "done" /\ HasRecords /\ (\E j \in 1..Len(trace) : WriteFailed(trace[j])) =>
    /\ response.statusCode = 200
    /\ Len(response.body.results) = Len(trace)
    /\ \A j \in 1..Len(trace) :
         /\ WriteFailed(trace[j]) =>
              /\ response.body.results[j].status = "error"
              /\ response.body.results[j].error = MsgPut
         /\ trace[j].putOk => response.body.results[j].status = "processed"

\* C3: for a well-formed upload notification, whatever the metadata fetch,
\* the object reads and the two model calls do, process_s3_record does not
\* raise, hands put_item one item with a metadata dict, a text and a summary,
\* and returns status processed whenever put_item succeeds.
C3_DegradeAndContinue ==
  pc = "returned" /\ WellFormed(args.record) =>
    /\ ~ret.exc
    /\ Count(ret.calls, "put_item") = 1
    /\ ret.attempt # <<>>
    /\ DOMAIN ret.attempt.metadata = {"content_type", "content_length", "etag", "metadata"}
    /\ IsStr(ret.attempt.raw_text)
    /\ IsStr(ret.attempt.summary)
    /\ args.env.put.ok => ret.val.status = "processed"

\* C3's case: head_object, the extraction's invoke_model, the fallback's
\* get_object and the summary's invoke_model all fail, and the notification
\* is processed.
C3_Witness ==
  /\ pc = "returned"
  /\ WellFormed(args.record)
  /\ ~args.env.head.ok /\ args.env.get1.ok /\ args.env.inv.raises
  /\ ~args.env.get2.ok /\ args.env.sinv.raises /\ args.env.put.ok
  /\ Count(ret.calls, "invoke_model") = 2
  /\ ret.val.status = "processed"
  /\ ret.attempt.raw_text = UnableFromFilePrefix \o MsgGet
  /\ ret.attempt.summary = ErrorSummaryPrefix \o MsgInvoke

\* C4: the table holds exactly one item per successful put_item and none for
\* a failed one: each item is stored under its own id, the number of items
\* is the number of successful writes (so no write replaced an item), and an
\* item handed to put_item is in the table exactly when the write succeeded.
C4_OneRecordPerWrite ==
  /\ Cardinality(DOMAIN table) = putCount
  /\ \A id \in DOMAIN table : table[id].document_id = id
  /\ \A j \in 1..Len(trace) :
       trace[j].attempt # <<>> =>
         IF trace[j].putOk
         THEN /\ trace[j].attempt.document_id \in DOMAIN table
              /\ table[trace[j].attempt.document_id] = trace[j].attempt
         ELSE trace[j].attempt.document_id \notin DOMAIN table

\* C4's case: two notifications for the same object key were written, the
\* second while an item of the first was in the table.
C4_Witness ==
  /\ pc = "done"
  /\ \E a \in DOMAIN table : \E b \in DOMAIN table :
       /\ a # b
       /\ table[a].object_key = table[b].object_key
       /\ b \in Written

\* C5: when the vision extractor's invoke_model call raises, the text it
\* returns is the text extract_text_directly returns on the same object.
C5_FallbackEqualsDirect ==
  VisionCalled /\ args.inv.raises => ret.val = DirectText

\* C5's case: the call raised on an object whose bytes are not UTF-8, and
\* the Latin-1 text of the bytes came back.
C5_Witness ==
  /\ VisionCalled
  /\ args.inv.raises
  /\ ~args.get2Fails
  /\ args.body = <<65, 255>>
  /\ ret.val = <<65, 255>>

\* The extension as the dispatch rule words it: the lower-cased substring
\* after the last '.', empty for a key without '.'.
StatedExtension(key) ==
  LET dots == {i \in 1..Len(key) : key[i] = 46}
  IN IF dots = {} THEN <<>>
     ELSE LowerStr(SubSeq(key, (CHOOSE i \in dots : \A j \in dots : j <= i) + 1, Len(key)))

\* C6: extract_text_from_document enters the vision extractor first exactly
\* when the extension after the last '.' (empty for a key without '.') is
\* one of the seven, and otherwise the direct decoder, with no model call.
C6_DispatchRule ==
  pc = "returned" =>
    IF StatedExtension(args.key) \in VisionExtensions
    THEN ret.calls[2] = "extract_text_with_bedrock_data_automation"
    ELSE /\ ret.calls[2] = "extract_text_directly"
         /\ Count(ret.calls, "invoke_model") = 0

\* C7: a text whose trimmed length is under 50 gets the fixed answer and no
\* invoke_model call; a text of trimmed length 50 or more gets exactly one
\* call.
C7_ShortCircuit ==
  pc = "returned" =>
    IF args.in.core < MinSummaryChars
    THEN ret.val = TextTooShort /\ Count(ret.calls, "invoke_model") = 0
    ELSE Count(ret.calls, "invoke_model") = 1

\* C7's case: 49 characters inside whitespace, 50 or more in all, and the
\* fixed answer.
C7_Witness ==
  /\ pc = "returned"
  /\ args.in.core = MinSummaryChars - 1
  /\ Len(args.in.text) >= MinSummaryChars
  /\ ret.val = TextTooShort

\* C8: get_document_metadata does not raise, and its content type is the
\* reported one if there is one, else the type guessed from the key, else
\* "unknown" (no guess, or head_object failed).
C8_ContentTypeResolution ==
  pc = "returned" =>
    /\ ~ret.exc
    /\ ret.val.content_type =
         IF args.head.ok /\ DictGet(args.head.resp, "ContentType", <<>>) # <<>>
         THEN args.head.resp.ContentType
         ELSE IF args.head.ok /\ GuessType(args.key) # None THEN GuessType(args.key)
         ELSE Unknown

\* The response has no content field or an empty content array.
EmptyContent(inv) ==
  /\ ~inv.raises
  /\ inv.parses
  /\ "content" \in DOMAIN inv.body => inv.body.content = <<>>

\* The body is not JSON, or the first content entry has no text that is a str.
Unparseable(inv) ==
  /\ ~inv.raises
  /\ \/ ~inv.parses
     \/ /\ "content" \in DOMAIN inv.body
        /\ inv.body.content # <<>>
        /\ \/ "text" \notin DOMAIN inv.body.content[1]
           \/ inv.body.content[1].text = None

\* C9 as stated: on every empty or malformed response of a call that did not
\* raise, the vision extractor returns the placeholder and does not enter
\* the direct decoder.
C9_MalformedGivesPlaceholder ==
  VisionCalled /\ (EmptyContent(args.inv) \/ Unparseable(args.inv)) =>
    /\ ret.val = EmptyExtractResponse
    /\ Count(ret.calls, "extract_text_directly") = 0

\* C9 amended: a response without a content field or with an empty content
\* array gives the placeholder and no fallback; a body that is not JSON, or
\* a first content entry without a str text, raises into the except branch
\* and gives the direct decoder's text.
C9_EmptyGivesPlaceholder ==
  /\ VisionCalled /\ EmptyContent(args.inv) =>
       /\ ret.val = EmptyExtractResponse
       /\ Count(ret.calls, "extract_text_directly") = 0
  /\ VisionCalled /\ Unparseable(args.inv) =>
       /\ ret.val = DirectText
       /\ Count(ret.calls, "extract_text_directly") = 1

\* C9's case: the model answered with an empty content array.
C9_Witness ==
  /\ VisionCalled
  /\ args.inv = InvokeBody([content |-> <<>>])
  /\ ret.val = EmptyExtractResponse

\* C10: every processed result of the response names an item written during
\* the invocation, with its bucket, key and the lengths of its text and
\* summary, and is the only result naming it; every item written during the
\* invocation is named by a processed result of the response.
C10_ResultsMatchRecords ==
  pc = "done" /\ HasRecords =>
    /\ \A j \in 1..Len(Reported) :
         Reported[j].status = "processed" =>
           /\ Reported[j].document_id \in Written
           /\ Reported[j].document_id \in DOMAIN table
           /\ table[Reported[j].document_id].bucket = Reported[j].bucket
           /\ table[Reported[j].document_id].object_key = Reported[j].key
           /\ Len(table[Reported[j].document_id].raw_text) = Reported[j].text_length
           /\ Len(table[Reported[j].document_id].summary) = Reported[j].summary_length
           /\ \A i \in 1..Len(Reported) :
                Reported[i].status = "processed"
                  /\ Reported[i].document_id = Reported[j].document_id => i = j
    /\ \A id \in Written :
         \E j \in 1..Len(Reported) :
           Reported[j].status = "processed" /\ Reported[j].document_id = id


====
